---- MODULE Spec2Model ----
(***************************************************************************)
(* The retrieval-augmented generation core of ai-knowledge-assistant:      *)
(* DocumentsService.uploadAndCreate, IngestionService.ingestDocument,      *)
(* OpenRouterEmbeddings (p-limit limiter, embedDocuments, embedQuery) and  *)
(* ChatService.generateResponse, as a state machine of their await points. *)
(* One action is one stretch of code between two awaits: what runs in the  *)
(* microtasks after an I/O completion is part of the action that models    *)
(* the completion.                                                         *)
(***************************************************************************)
EXTENDS Integers, Sequences, FiniteSets, TLC

\* ------------------------------------------------------------------ bounds
MaxUploads == 2
MaxChunks == 2
MaxTime == 1
MaxChats == 1
MaxQueries == 1
\* runs of ingestDocument that store the records of one document
MaxRuns == 2
\* documents ingestDocument is called for again
MaxReingested == 1
\* submits of the chat form that are accepted
MaxSubmits == 3

\* ------------------------------------------------------- program constants
\* pLimit(1): the limiter's concurrency
Concurrency == 1
\* maxRetries passed to the OpenRouterEmbeddings constructor
maxRetries == 1
\* asRetriever(4)
TopK == 4
\* RecursiveCharacterTextSplitter({chunkSize: 1000})
chunkSize == 1000
\* pageContent.substring(0, 200)
PreviewLen == 200

Uploads == 1..MaxUploads
DocIds == 1..MaxUploads
Chats == 1..MaxChats
Queries == 1..MaxQueries
Submits == 1..MaxSubmits
\* what a user may type into the chat input
QueryTexts == {"", "q1", "q2"}
ChunkIdx == 1..MaxChunks
Names == {"a.pdf", "b.pdf"}
\* the files a client may upload: original name and the number of chunks the
\* text of the file splits into (none for a file without extractable text)
\* what a chat query may be about: document 1, or nothing that is stored (0)
Topics == {0, 1}
\* last: the characters of the last chunk (150: a chunk shorter than a preview)
Files == {[name |-> "a.pdf", chunks |-> 0, last |-> 0],
          [name |-> "a.pdf", chunks |-> MaxChunks, last |-> 150],
          [name |-> "b.pdf", chunks |-> 1, last |-> chunkSize]}
NoFile == [name |-> "", chunks |-> 0, last |-> 0]
\* embedDocuments was not called
NoCall == [state |-> "none", value |-> <<>>]
NoDoc == [id |-> 0, file_name |-> "", storage_path |-> <<>>, status |-> "PENDING"]

VARIABLES
  now,          \* last value Date.now() returned
  upc,          \* upload request -> position in uploadAndCreate
  file,         \* upload request -> the uploaded file (name, chunks its text splits into)
  storage,      \* the 'documents' bucket: set of [path, bytes]
  documents,    \* the documents table: sequence of Document rows
  uploadResult, \* upload request -> the Document uploadAndCreate returned
  response,     \* upload request -> what the controller sent to the client
  ipc,          \* document id -> position of its ingestDocument run
  loaded,       \* document id -> bytes the run's loader read (0: none yet)
  chunks,       \* document id -> chunks.length of the run
  outcome,      \* document id -> how the run's promise settled
  caught,       \* document id -> the .catch handler of uploadAndCreate ran
  cleanup,      \* document id -> what the run's fs.rm did
  tempDir,      \* temp-uploads exists
  tempFiles,    \* file name -> bytes held by temp-uploads/<name> (0: no such file)
  tstat,        \* document id -> chunk -> state of its limiter task
  attempts,     \* document id -> chunk -> remote calls made for the text
  queue,        \* p-limit's queue of tasks not yet started
  activeCount,  \* p-limit's activeCount
  texts,        \* embedDocuments call -> its input texts (the call of a run has the run's id)
  embedded,     \* embedDocuments call -> text -> the vector its task resolved with (<<>>: none)
  result,       \* embedDocuments call -> state and value of the promise it returned
  vectors,      \* the 'vectors' table: sequence of records
  dq,           \* direct embedQuery caller -> position
  cpc,          \* chat request -> position in generateResponse
  query,        \* chat request -> the document its query is about (0: none)
  context,      \* chat request -> the documents the chain's retriever returned
  answer,       \* chat request -> the text the chain returned
  sources,      \* chat request -> sourceDocuments of the response
  steps,        \* chat request -> awaited steps generateResponse has started
  isLoading,    \* HomePage state: isLoading
  currentQuery, \* HomePage state: currentQuery
  messages,     \* HomePage state: messages
  rendered,     \* isLoading and currentQuery of the last render: what the handlers
                \* of the page and its disabled attributes see
  hpc           \* accepted submit -> position of its handleChatSubmit call

vars == <<now, upc, file, storage, documents, uploadResult, response, ipc, loaded, chunks,
          outcome, caught, cleanup, tempDir, tempFiles, tstat, attempts, queue,
          activeCount, texts, embedded, result, vectors, dq, cpc, query, context, answer, sources,
          steps, isLoading, currentQuery, messages, rendered, hpc>>

uploadVars == <<now, upc, file, storage, documents, uploadResult, response>>
fsVars == <<tempDir, tempFiles>>
limiterVars == <<tstat, attempts, queue, activeCount>>
embedVars == <<limiterVars, texts, embedded, result>>
runVars == <<ipc, loaded, chunks, outcome, caught, cleanup>>
chatVars == <<cpc, query, context, answer, sources, steps>>
uiVars == <<isLoading, currentQuery, messages, rendered, hpc>>

Min(a, b) == IF a < b THEN a ELSE b

\* ------------------------------------------------------------------- Init
Init ==
  /\ now = 0
  /\ upc = [u \in Uploads |-> "idle"]
  /\ file = [u \in Uploads |-> NoFile]
  /\ storage = {}
  /\ documents = <<>>
  /\ uploadResult = [u \in Uploads |-> NoDoc]
  /\ response = [u \in Uploads |-> "none"]
  /\ ipc = [d \in DocIds |-> "none"]
  /\ loaded = [d \in DocIds |-> 0]
  /\ chunks = [d \in DocIds |-> 0]
  /\ outcome = [d \in DocIds |-> "pending"]
  /\ caught = [d \in DocIds |-> FALSE]
  /\ cleanup = [d \in DocIds |-> "none"]
  /\ tempDir = FALSE
  /\ tempFiles = [n \in Names |-> 0]
  /\ tstat = [d \in DocIds |-> [i \in ChunkIdx |-> "none"]]
  /\ attempts = [d \in DocIds |-> [i \in ChunkIdx |-> 0]]
  /\ queue = <<>>
  /\ activeCount = 0
  /\ texts = [d \in DocIds |-> <<>>]
  /\ embedded = [d \in DocIds |-> [i \in ChunkIdx |-> <<>>]]
  /\ result = [d \in DocIds |-> NoCall]
  /\ vectors = <<>>
  /\ dq = [k \in Queries |-> "idle"]
  /\ cpc = [c \in Chats |-> "idle"]
  /\ query = [c \in Chats |-> 0]
  /\ context = [c \in Chats |-> <<>>]
  /\ answer = [c \in Chats |-> "none"]
  /\ sources = [c \in Chats |-> <<>>]
  /\ steps = [c \in Chats |-> 0]
  /\ isLoading = FALSE
  /\ currentQuery = ""
  /\ messages = <<>>
  /\ rendered = [isLoading |-> FALSE, currentQuery |-> ""]
  /\ hpc = [k \in Submits |-> "none"]

\* ------------------------------------------------- DocumentsService upload
\* `uploads/${Date.now()}-${file.originalname}`
StoragePath(t, name) == <<"uploads", t, name>>

PathsStored == {o.path : o \in storage}

\* an upload with {upsert: true}: bytes stored under a path that is taken replace
\* the bytes that were there
UploadFileUpsert(u) ==
  /\ upc[u] = "idle"
  /\ \E t \in now..MaxTime, f \in Files :
       /\ now' = t
       /\ \/ /\ storage' = {o \in storage : o.path # StoragePath(t, f.name)}
                              \cup {[path |-> StoragePath(t, f.name), bytes |-> u]}
             /\ file' = [file EXCEPT ![u] = f]
             /\ upc' = [upc EXCEPT ![u] = "stored"]
             /\ UNCHANGED response
          \/ /\ upc' = [upc EXCEPT ![u] = "failed"]
             /\ response' = [response EXCEPT ![u] = "error"]
             /\ UNCHANGED <<storage, file>>
  /\ UNCHANGED <<documents, uploadResult, runVars, fsVars, embedVars, vectors, dq, uiVars, chatVars>>

\* uploadAndCreate up to the end of the awaited storage upload: the path is
\* computed from the clock and the original name, the bytes are stored under it,
\* and an error of the bucket (among them: the path is taken) is thrown.
UploadFile(u) ==
  /\ upc[u] = "idle"
  /\ \E t \in now..MaxTime, f \in Files :
       /\ now' = t
       /\ \/ /\ StoragePath(t, f.name) \notin PathsStored
             /\ storage' = storage \cup {[path |-> StoragePath(t, f.name), bytes |-> u]}
             /\ file' = [file EXCEPT ![u] = f]
             /\ upc' = [upc EXCEPT ![u] = "stored"]
             /\ UNCHANGED response
          \/ /\ upc' = [upc EXCEPT ![u] = "failed"]
             /\ response' = [response EXCEPT ![u] = "error"]
             /\ UNCHANGED <<storage, file>>
  /\ UNCHANGED <<documents, uploadResult, runVars, fsVars, embedVars, vectors, dq, uiVars, chatVars>>

PathOf(u) == (CHOOSE o \in storage : o.bytes = u).path

\* await this.ingestionService.ingestDocument(savedDocument): nothing is
\* returned while the run is not over
ReturnAfterIngestion(u, d) ==
  /\ ipc' = [ipc EXCEPT ![d] = "mkdir"]
  /\ upc' = [upc EXCEPT ![u] = "awaiting"]
  /\ UNCHANGED <<uploadResult, response>>

\* What uploadAndCreate does once the row is saved: ingestDocument is called
\* and not awaited (the run goes up to its first await, fs.mkdir), the saved row
\* is returned, and DocumentsController.uploadFile sends it to the client.
ReturnSaved(u, d) ==
  /\ ipc' = [ipc EXCEPT ![d] = "mkdir"]
  /\ upc' = [upc EXCEPT ![u] = "responded"]
  /\ uploadResult' = [uploadResult EXCEPT ![u] = documents'[d]]
  /\ response' = [response EXCEPT ![u] =
        [message |-> "File uploaded successfully!", document |-> documents'[d]]]

\* ingestDocument called with the created entity before save is awaited: when
\* the save fails the run is under way without a row
IngestBeforeSave(u) ==
  /\ upc[u] = "stored"
  /\ \/ LET d == Len(documents) + 1 IN
          /\ documents' = Append(documents,
                 [id |-> d, file_name |-> file[u].name,
                  storage_path |-> PathOf(u), status |-> "UPLOADED"])
          /\ ReturnSaved(u, d)
     \/ /\ upc' = [upc EXCEPT ![u] = "failed"]
        /\ response' = [response EXCEPT ![u] = "error"]
        /\ ipc' = [ipc EXCEPT ![Len(documents) + 1] = "mkdir"]
        /\ UNCHANGED <<documents, uploadResult>>
  /\ UNCHANGED <<now, file, storage, loaded, chunks, outcome, caught, cleanup, fsVars,
                 embedVars, vectors, dq, uiVars, chatVars>>

\* repository.create + save, then ingestDocument(savedDocument).catch(...) and
\* return savedDocument; a failing save throws out of uploadAndCreate.
SaveDocument(u) ==
  /\ upc[u] = "stored"
  /\ \/ LET d == Len(documents) + 1 IN
          /\ documents' = Append(documents,
                 [id |-> d, file_name |-> file[u].name,
                  storage_path |-> PathOf(u), status |-> "UPLOADED"])
          /\ ReturnSaved(u, d)
     \/ /\ upc' = [upc EXCEPT ![u] = "failed"]
        /\ response' = [response EXCEPT ![u] = "error"]
        /\ UNCHANGED <<documents, uploadResult, ipc>>
  /\ UNCHANGED <<now, file, storage, loaded, chunks, outcome, caught, cleanup, fsVars,
                 embedVars, vectors, dq, uiVars, chatVars>>

\* ------------------------------------------- OpenRouterEmbeddings, p-limit
Tasks(d, n) == [i \in 1..n |-> <<d, i>>]

\* a Promise.allSettled in the place of Promise.all: fulfilled once every task
\* has settled, a rejected task leaving a hole
PromiseAllSettled(ts, n) ==
  IF \A i \in 1..n : ts[i] \in {"ok", "err"} THEN "fulfilled" ELSE "pending"

\* Promise.all over the tasks of one embedDocuments call: rejected with the
\* first rejection, fulfilled when every task is, pending otherwise.
PromiseAll(ts, n) ==
  IF \E i \in 1..n : ts[i] = "err" THEN "rejected"
  ELSE IF \A i \in 1..n : ts[i] = "ok" THEN "fulfilled"
  ELSE "pending"

\* a limiter that takes the head of the queue and loses it: the task is never run
DispatchLosing(ts, q, active) ==
  LET k == Min(Concurrency - active, Len(q))
  IN /\ tstat' = ts
     /\ attempts' = attempts
     /\ queue' = SubSeq(q, k + 1, Len(q))
     /\ activeCount' = active

\* p-limit: while activeCount < concurrency and the queue is not empty, the head
\* of the queue is taken and run. Running a task is embedQuery(text), which makes
\* one client.embeddings.generate call: the remote call is in flight from here.
Dispatch(ts, q, active) ==
  LET k == Min(Concurrency - active, Len(q))
      started == {q[j] : j \in 1..k}
  IN /\ tstat' = [d \in DocIds |-> [i \in ChunkIdx |->
                    IF <<d, i>> \in started THEN "running" ELSE ts[d][i]]]
     /\ attempts' = [d \in DocIds |-> [i \in ChunkIdx |->
                    IF <<d, i>> \in started THEN attempts[d][i] + 1 ELSE attempts[d][i]]]
     /\ queue' = SubSeq(q, k + 1, Len(q))
     /\ activeCount' = active + k

\* res.data[0].embedding of the response to generate({model, input: text}):
\* the vector the remote model computes for the text it was sent
Vector(text) == <<"embedding", text>>

\* the values of the tasks, last first
ValuesReversed(vals, n) == [i \in 1..n |-> vals[n + 1 - i]]

\* the value Promise.all(tasks) is fulfilled with: the values of the tasks by
\* the index of the task
PromiseAllValues(vals, n) == [i \in 1..n |-> vals[i]]

\* the promise embedDocuments returned, from the states and values of its tasks
Returned(ts, vals, n) ==
  [state |-> PromiseAll(ts, n),
   value |-> IF PromiseAll(ts, n) = "fulfilled" THEN PromiseAllValues(vals, n) ELSE <<>>]

\* embedDocuments(texts), call number d: every text becomes a task handed to
\* the limiter at once; the call returns Promise.all of the tasks (fulfilled
\* with [] when there is no task).
EmbedDocuments(d, ts) ==
  LET n == Len(ts)
      none == [i \in ChunkIdx |-> <<>>]
      st == [i \in ChunkIdx |-> IF i <= n THEN "queued" ELSE "none"]
  IN /\ Dispatch([tstat EXCEPT ![d] = st], queue \o Tasks(d, n), activeCount)
     /\ texts' = [texts EXCEPT ![d] = ts]
     /\ embedded' = [embedded EXCEPT ![d] = none]
     /\ result' = [result EXCEPT ![d] = Returned(st, none, n)]

\* remote embedding calls in flight from the one OpenRouterEmbeddings instance
InFlight ==
  Cardinality({t \in DocIds \X ChunkIdx : tstat[t[1]][t[2]] = "running"})
  + Cardinality({k \in Queries : dq[k] = "inflight"})

\* ------------------------------------------ IngestionService.ingestDocument
FileName(d) == documents[d].file_name

BytesAt(path) == (CHOOSE o \in storage : o.path = path).bytes

\* the early return placed before the try block: no finally for it
ExitTryNoFinally(d, how) ==
  /\ outcome' = [outcome EXCEPT ![d] = how]
  /\ ipc' = [ipc EXCEPT ![d] = IF how = "undefined" THEN "done" ELSE "cleanup"]

\* The try block is left: by return (how = "result", "undefined") or through
\* catch, which throws Error('Ingestion process failed.') (how = "error").
\* finally runs next: fs.rm is called and awaited.
ExitTry(d, how) ==
  /\ outcome' = [outcome EXCEPT ![d] = how]
  /\ ipc' = [ipc EXCEPT ![d] = "cleanup"]

\* a run that marks its Document PENDING when it starts
MkdirMarkingPending(d) ==
  /\ ipc[d] = "mkdir"
  /\ tempDir' = TRUE
  /\ ipc' = [ipc EXCEPT ![d] = "download"]
  /\ documents' = [documents EXCEPT ![d].status = "PENDING"]
  /\ UNCHANGED <<now, upc, file, storage, uploadResult, response, loaded, chunks, outcome,
                 caught, cleanup, tempFiles, embedVars, vectors, dq, uiVars, chatVars>>

\* await fs.mkdir(tempDir, {recursive: true})
Mkdir(d) ==
  /\ ipc[d] = "mkdir"
  /\ tempDir' = TRUE
  /\ ipc' = [ipc EXCEPT ![d] = "download"]
  /\ UNCHANGED <<uploadVars, loaded, chunks, outcome, caught, cleanup, tempFiles,
                 embedVars, vectors, dq, uiVars, chatVars>>

\* await storage.download(storage_path); if (error) throw
Download(d) ==
  /\ ipc[d] = "download"
  /\ \/ /\ ipc' = [ipc EXCEPT ![d] = "write"]
        /\ UNCHANGED outcome
     \/ ExitTry(d, "error")
  /\ UNCHANGED <<uploadVars, loaded, chunks, caught, cleanup, fsVars, embedVars, vectors, dq, uiVars, chatVars>>

\* await fs.writeFile(tempFilePath, bytes): ENOENT when temp-uploads is gone
WriteFile(d) ==
  /\ ipc[d] = "write"
  /\ IF tempDir
       THEN /\ tempFiles' = [tempFiles EXCEPT ![FileName(d)] =
                                BytesAt(documents[d].storage_path)]
            /\ ipc' = [ipc EXCEPT ![d] = "load"]
            /\ UNCHANGED outcome
       ELSE /\ ExitTry(d, "error")
            /\ UNCHANGED tempFiles
  /\ UNCHANGED <<uploadVars, loaded, chunks, caught, cleanup, tempDir, embedVars, vectors, dq, uiVars, chatVars>>

\* A text is written as the first len characters of chunk number chunk of the
\* text of a file. pageContent of chunk i of the file with bytes b: chunkSize
\* characters, the last chunk what is left
PageContent(b, i) ==
  [file |-> file[b], chunk |-> i,
   len |-> IF i < file[b].chunks THEN chunkSize ELSE file[b].last]

\* text.substring(0, k)
Substring(text, k) == [text EXCEPT !.len = Min(text.len, k)]

\* text.substring(0, 200) + '...'
Preview(content) == <<Substring(content, PreviewLen), "...">>

\* splitDocuments: the page contents of the chunks of the file with bytes b
SplitDocuments(b) == [i \in 1..file[b].chunks |-> PageContent(b, i)]

\* loader.load() reads temp-uploads/<file_name> (ENOENT when it is gone, a parse
\* error for bytes pdfjs cannot read), splitDocuments splits what was read; with
\* no chunk the run returns undefined, else fromDocuments is called, which calls
\* embedDocuments with the texts of the chunks.
LoadAndSplit(d) ==
  /\ ipc[d] = "load"
  /\ \/ /\ tempFiles[FileName(d)] # 0
        /\ LET n == file[tempFiles[FileName(d)]].chunks IN
             /\ loaded' = [loaded EXCEPT ![d] = tempFiles[FileName(d)]]
             /\ chunks' = [chunks EXCEPT ![d] = n]
             /\ IF n = 0
                  THEN /\ ExitTry(d, "undefined")
                       /\ UNCHANGED embedVars
                  ELSE /\ ipc' = [ipc EXCEPT ![d] = "embedding"]
                       /\ EmbedDocuments(d, SplitDocuments(tempFiles[FileName(d)]))
                       /\ UNCHANGED outcome
     \/ /\ ExitTry(d, "error")
        /\ UNCHANGED <<loaded, chunks, embedVars>>
  /\ UNCHANGED <<uploadVars, caught, cleanup, fsVars, vectors, dq, uiVars, chatVars>>

\* A remote call of a limiter task returns: embedQuery returns the vector or
\* rethrows, the task settles, p-limit runs the next queued task, and the
\* Promise.all the run awaits may settle: a rejection goes through catch, with
\* all vectors addVectors is called.
RemoteReturn(d, i) ==
  /\ tstat[d][i] = "running"
  /\ \E r \in {"ok", "err"} :
       LET ts == [tstat EXCEPT ![d][i] = r]
           vals == IF r = "ok" THEN [embedded[d] EXCEPT ![i] = Vector(texts[d][i])]
                   ELSE embedded[d]
       IN
         /\ Dispatch(ts, queue, activeCount - 1)
         /\ embedded' = [embedded EXCEPT ![d] = vals]
         /\ result' = [result EXCEPT ![d] = Returned(ts[d], vals, Len(texts[d]))]
         /\ UNCHANGED texts
         /\ IF ipc[d] = "embedding" /\ PromiseAll(ts[d], chunks[d]) = "rejected"
              THEN ExitTry(d, "error")
            ELSE IF ipc[d] = "embedding" /\ PromiseAll(ts[d], chunks[d]) = "fulfilled"
              THEN /\ ipc' = [ipc EXCEPT ![d] = "store"]
                   /\ UNCHANGED outcome
            ELSE UNCHANGED <<ipc, outcome>>
  /\ UNCHANGED <<uploadVars, loaded, chunks, caught, cleanup, fsVars, vectors, dq, uiVars, chatVars>>

\* rows with the metadata the loader gave the chunks: the path of the file read
RowsAsLoaded(d) ==
  [i \in 1..chunks[d] |->
     [content |-> PageContent(loaded[d], i),
      metadata |-> [documentId |-> 0, source |-> "temp-uploads"]]]

\* the rows addVectors inserts: one per vector, with the chunk of its index
Rows(d) ==
  LET ok == {i \in 1..chunks[d] : tstat[d][i] = "ok"}
      pick[S \in SUBSET ChunkIdx] ==
        IF S = {} THEN <<>>
        ELSE LET i == CHOOSE x \in S : \A y \in S : x <= y
             IN <<[content |-> PageContent(loaded[d], i),
                   metadata |-> [documentId |-> d, source |-> FileName(d)]]>>
                \o pick[S \ {i}]
  IN pick[ok]

\* an insert that first deletes the rows of the document (an upsert by document)
StoreReplacing(d) ==
  /\ ipc[d] = "store"
  /\ \/ /\ vectors' = SelectSeq(vectors, LAMBDA r : r.metadata.documentId # d) \o Rows(d)
        /\ ExitTry(d, "result")
     \/ /\ ExitTry(d, "error")
        /\ UNCHANGED vectors
  /\ UNCHANGED <<uploadVars, loaded, chunks, caught, cleanup, fsVars, embedVars, dq, uiVars, chatVars>>

\* addVectors inserts the rows; an error of the insert goes through catch.
\* With the rows stored the run returns {chunkCount, firstChunkText}.
Store(d) ==
  /\ ipc[d] = "store"
  /\ \/ /\ vectors' = vectors \o Rows(d)
        /\ ExitTry(d, "result")
     \/ /\ ExitTry(d, "error")
        /\ UNCHANGED vectors
  /\ UNCHANGED <<uploadVars, loaded, chunks, caught, cleanup, fsVars, embedVars, dq, uiVars, chatVars>>

\* a finally without the try/catch around fs.rm: an error of fs.rm is thrown out
\* of finally and is what the run ends with
CleanupThrowing(d) ==
  /\ ipc[d] = "cleanup"
  /\ \/ /\ tempDir' = FALSE
        /\ tempFiles' = [n \in Names |-> 0]
        /\ cleanup' = [cleanup EXCEPT ![d] = "removed"]
        /\ caught' = [caught EXCEPT ![d] = (outcome[d] = "error")]
        /\ UNCHANGED outcome
     \/ /\ cleanup' = [cleanup EXCEPT ![d] = "failed"]
        /\ outcome' = [outcome EXCEPT ![d] = "error"]
        /\ caught' = [caught EXCEPT ![d] = TRUE]
        /\ UNCHANGED fsVars
  /\ ipc' = [ipc EXCEPT ![d] = "done"]
  /\ UNCHANGED <<uploadVars, loaded, chunks, embedVars, vectors, dq, uiVars, chatVars>>

\* finally: await fs.rm(tempDir, {recursive, force}) removes temp-uploads with
\* every file in it, or fails, which is logged. The run's promise then settles;
\* a rejection runs the .catch handler given by uploadAndCreate.
Cleanup(d) ==
  /\ ipc[d] = "cleanup"
  /\ \/ /\ tempDir' = FALSE
        /\ tempFiles' = [n \in Names |-> 0]
        /\ cleanup' = [cleanup EXCEPT ![d] = "removed"]
     \/ /\ cleanup' = [cleanup EXCEPT ![d] = "failed"]
        /\ UNCHANGED fsVars
  /\ ipc' = [ipc EXCEPT ![d] = "done"]
  /\ caught' = [caught EXCEPT ![d] = (outcome[d] = "error")]
  /\ UNCHANGED <<uploadVars, loaded, chunks, outcome, embedVars, vectors, dq, uiVars, chatVars>>

\* ingestDocument(document) called again for a saved Document that a former
\* run has ingested: a new run with new locals, up to its first await. Runs are
\* made while the store holds fewer than MaxRuns sets of records of the document.
IngestAgain(d) ==
  /\ ipc[d] = "done"
  /\ outcome[d] = "result"
  /\ Cardinality({j \in 1..Len(vectors) : vectors[j].metadata.documentId = d})
       < MaxRuns * file[BytesAt(documents[d].storage_path)].chunks
  /\ ipc' = [ipc EXCEPT ![d] = "mkdir"]
  /\ loaded' = [loaded EXCEPT ![d] = 0]
  /\ chunks' = [chunks EXCEPT ![d] = 0]
  /\ outcome' = [outcome EXCEPT ![d] = "pending"]
  /\ caught' = [caught EXCEPT ![d] = FALSE]
  /\ cleanup' = [cleanup EXCEPT ![d] = "none"]
  /\ tstat' = [tstat EXCEPT ![d] = [i \in ChunkIdx |-> "none"]]
  /\ attempts' = [attempts EXCEPT ![d] = [i \in ChunkIdx |-> 0]]
  /\ texts' = [texts EXCEPT ![d] = <<>>]
  /\ embedded' = [embedded EXCEPT ![d] = [i \in ChunkIdx |-> <<>>]]
  /\ result' = [result EXCEPT ![d] = NoCall]
  /\ UNCHANGED <<uploadVars, fsVars, queue, activeCount, vectors, dq, uiVars, chatVars>>

\* the value ingestDocument returns on success
ReturnValue(d) ==
  [chunkCount |-> chunks[d], firstChunkText |-> Preview(PageContent(loaded[d], 1))]

\* ------------------------------------------- embedQuery called by a caller
\* embedQuery(text) called on the instance from outside embedDocuments: it
\* calls client.embeddings.generate at once.
EmbedQuery(k) ==
  /\ dq[k] = "idle"
  /\ dq' = [dq EXCEPT ![k] = "inflight"]
  /\ UNCHANGED <<uploadVars, runVars, fsVars, embedVars, vectors, uiVars, chatVars>>

EmbedQueryReturn(k) ==
  /\ dq[k] = "inflight"
  /\ \E r \in {"ok", "err"} : dq' = [dq EXCEPT ![k] = r]
  /\ UNCHANGED <<uploadVars, runVars, fsVars, embedVars, vectors, uiVars, chatVars>>

\* -------------------------------------- embedDocuments called by a caller
\* the texts a caller may pass: any sequence of up to MaxChunks texts
InputTexts == {<<1, i>> : i \in ChunkIdx}
TextSeqs == UNION {[1..n -> InputTexts] : n \in 0..MaxChunks}

\* embedDocuments(texts) called on the instance, call number d
CallEmbedDocuments(d) ==
  /\ result[d].state = "none"
  /\ ipc[d] = "none"
  /\ \E ts \in TextSeqs : EmbedDocuments(d, ts)
  /\ UNCHANGED <<uploadVars, runVars, fsVars, vectors, dq, uiVars, chatVars>>

\* ------------------------------------------ ChatService.generateResponse
\* similarity of a stored row to the query: the rows of the document the query
\* is about are the similar ones
Score(row, q) == IF row.metadata.documentId = q THEN 1 ELSE 0

\* match_documents: at most k rows by descending similarity, rows of equal
\* similarity in insertion order; no row for k <= 0
SimilaritySearch(store, q, k) ==
  LET ranked == SelectSeq(store, LAMBDA r : Score(r, q) = 1)
                \o SelectSeq(store, LAMBDA r : Score(r, q) = 0)
  IN IF k <= 0 THEN <<>> ELSE SubSeq(ranked, 1, Min(k, Len(ranked)))

\* sourceDocuments.map(doc => ({source, content}))
SourceDocuments(docs) ==
  [j \in 1..Len(docs) |->
     [source |-> docs[j].metadata.source, content |-> Preview(docs[j].content)]]

\* generateResponse calls and awaits one more step: the chain's retriever, the
\* chain's language model, the retriever for the sources
StepStarted(c) == steps' = [steps EXCEPT ![c] = @ + 1]

\* An error thrown inside generateResponse rejects its promise: the request ends
\* with an error response and the locals of the call are gone.
ChatFails(c) ==
  /\ cpc' = [cpc EXCEPT ![c] = "error"]
  /\ context' = [context EXCEPT ![c] = <<>>]
  /\ answer' = [answer EXCEPT ![c] = "none"]
  /\ UNCHANGED <<query, sources, steps>>

\* generateResponse(query): the chain is built and invoked; its first step is
\* the retriever (query embedding and match_documents call).
ChatStart(c) ==
  /\ cpc[c] = "idle"
  /\ \E q \in Topics : query' = [query EXCEPT ![c] = q]
  /\ cpc' = [cpc EXCEPT ![c] = "retrieve"]
  /\ StepStarted(c)
  /\ UNCHANGED <<uploadVars, runVars, fsVars, embedVars, vectors, dq, uiVars,
                 context, answer, sources>>

\* a retriever whose query embedding waits for a free slot of the ingestion's
\* limiter
RetrieveLimited(c) ==
  /\ cpc[c] = "retrieve"
  /\ activeCount < Concurrency
  /\ \/ /\ context' = [context EXCEPT ![c] = SimilaritySearch(vectors, query[c], TopK)]
        /\ cpc' = [cpc EXCEPT ![c] = "generate"]
        /\ StepStarted(c)
        /\ UNCHANGED <<query, answer, sources>>
     \/ ChatFails(c)
  /\ UNCHANGED <<uploadVars, runVars, fsVars, embedVars, vectors, dq, uiVars>>

\* the chain's retriever returns: its documents, joined, are the context of the
\* prompt the language model is called with; an error leaves generateResponse.
Retrieve(c) ==
  /\ cpc[c] = "retrieve"
  /\ \/ /\ context' = [context EXCEPT ![c] = SimilaritySearch(vectors, query[c], TopK)]
        /\ cpc' = [cpc EXCEPT ![c] = "generate"]
        /\ StepStarted(c)
        /\ UNCHANGED <<query, answer, sources>>
     \/ ChatFails(c)
  /\ UNCHANGED <<uploadVars, runVars, fsVars, embedVars, vectors, dq, uiVars>>

\* a chain that also saves the question it answered as a record of the store
GenerateAndRemember(c) ==
  /\ cpc[c] = "generate"
  /\ \/ /\ answer' = [answer EXCEPT ![c] = "text"]
        /\ cpc' = [cpc EXCEPT ![c] = "sources"]
        /\ StepStarted(c)
        /\ vectors' = Append(vectors, [content |-> [file |-> NoFile, chunk |-> 1, len |-> 1],
                                       metadata |-> [documentId |-> 0, source |-> "chat"]])
        /\ UNCHANGED <<query, context, sources>>
     \/ /\ ChatFails(c)
        /\ UNCHANGED vectors
  /\ UNCHANGED <<uploadVars, runVars, fsVars, embedVars, dq, uiVars>>

\* the sentence the prompt template tells the language model to answer with when
\* the context does not mention what the question is about
CannotAnswer == "cannot answer from the documents"

\* what the language model may return for a prompt: the sentence, or a text of
\* its own; the chain passes it through StringOutputParser as it is
Answers == {CannotAnswer, "text"}

\* the language model returns: answer = await ragChain.invoke(query); then
\* retriever.invoke(query) is called for the sources.
Generate(c) ==
  /\ cpc[c] = "generate"
  /\ \/ /\ \E a \in Answers : answer' = [answer EXCEPT ![c] = a]
        /\ cpc' = [cpc EXCEPT ![c] = "sources"]
        /\ StepStarted(c)
        /\ UNCHANGED <<query, context, sources>>
     \/ ChatFails(c)
  /\ UNCHANGED <<uploadVars, runVars, fsVars, embedVars, vectors, dq, uiVars>>

\* a second retrieval that is called once more when it has failed
RetrieveSourcesRetrying(c) ==
  /\ cpc[c] = "sources"
  /\ \/ /\ sources' = [sources EXCEPT ![c] =
                 SourceDocuments(SimilaritySearch(vectors, query[c], TopK))]
        /\ cpc' = [cpc EXCEPT ![c] = "done"]
        /\ UNCHANGED <<query, context, answer, steps>>
     \/ IF steps[c] < 4
          THEN /\ StepStarted(c)
               /\ UNCHANGED <<cpc, query, context, answer, sources>>
          ELSE ChatFails(c)
  /\ UNCHANGED <<uploadVars, runVars, fsVars, embedVars, vectors, dq, uiVars>>

\* the second retrieval returns: {answer, sourceDocuments} is returned.
RetrieveSources(c) ==
  /\ cpc[c] = "sources"
  /\ \/ /\ sources' = [sources EXCEPT ![c] =
                 SourceDocuments(SimilaritySearch(vectors, query[c], TopK))]
        /\ cpc' = [cpc EXCEPT ![c] = "done"]
        /\ UNCHANGED <<query, context, answer, steps>>
     \/ ChatFails(c)
  /\ UNCHANGED <<uploadVars, runVars, fsVars, embedVars, vectors, dq, uiVars>>

\* ----------------------------------------------- HomePage, the chat form
\* React renders the updates made inside a discrete event (change, submit)
\* before the next event is handled: the render is part of the event's action
Flush ==
  rendered' = [isLoading |-> isLoading', currentQuery |-> currentQuery']

\* the accepted submit that comes next
NextSubmit == CHOOSE k \in Submits : hpc[k] = "none" /\ \A j \in 1..(k - 1) : hpc[j] # "none"

\* <Input onChange={e => setCurrentQuery(e.target.value)} disabled={isLoading}>
onChange(text) ==
  /\ ~rendered.isLoading
  /\ text # rendered.currentQuery
  /\ currentQuery' = text
  /\ UNCHANGED <<isLoading, messages, hpc>>
  /\ Flush
  /\ UNCHANGED <<uploadVars, runVars, fsVars, embedVars, vectors, dq, chatVars>>

\* a handler that does not set isLoading
handleChatSubmitNotLoading ==
  /\ \E k \in Submits : hpc[k] = "none"
  /\ ~(rendered.currentQuery = "" \/ rendered.isLoading)
  /\ UNCHANGED isLoading
  /\ messages' = Append(messages, [sender |-> "user", text |-> rendered.currentQuery])
  /\ currentQuery' = ""
  /\ hpc' = [hpc EXCEPT ![NextSubmit] = "fetch"]
  /\ Flush
  /\ UNCHANGED <<uploadVars, runVars, fsVars, embedVars, vectors, dq, chatVars>>

\* handleChatSubmit, a submit event of the form, up to its await fetch(...): with
\* no query or while loading (as last rendered) it returns and nothing changes;
\* else isLoading is set, the user message appended, the input cleared and the
\* request sent.
handleChatSubmit ==
  /\ \E k \in Submits : hpc[k] = "none"
  /\ ~(rendered.currentQuery = "" \/ rendered.isLoading)
  /\ isLoading' = TRUE
  /\ messages' = Append(messages, [sender |-> "user", text |-> rendered.currentQuery])
  /\ currentQuery' = ""
  /\ hpc' = [hpc EXCEPT ![NextSubmit] = "fetch"]
  /\ Flush
  /\ UNCHANGED <<uploadVars, runVars, fsVars, embedVars, vectors, dq, chatVars>>

\* catch: the error message is appended; finally: setIsLoading(false). These
\* updates are made outside an event and are rendered later.
CatchFinally(k) ==
  /\ messages' = Append(messages, [sender |-> "ai", text |-> "error"])
  /\ isLoading' = FALSE
  /\ hpc' = [hpc EXCEPT ![k] = "done"]

\* await fetch(...) settles: a response that is ok goes on to response.json(),
\* one that is not throws, a rejected fetch throws
FetchReturn(k) ==
  /\ hpc[k] = "fetch"
  /\ \/ /\ hpc' = [hpc EXCEPT ![k] = "json"]
        /\ UNCHANGED <<isLoading, messages>>
     \/ CatchFinally(k)
  /\ UNCHANGED <<currentQuery, rendered>>
  /\ UNCHANGED <<uploadVars, runVars, fsVars, embedVars, vectors, dq, chatVars>>

\* await response.json() settles: the ai message with the answer is appended,
\* or the body does not parse and the error goes to catch; then finally
JsonReturn(k) ==
  /\ hpc[k] = "json"
  /\ \/ /\ messages' = Append(messages, [sender |-> "ai", text |-> "answer"])
        /\ isLoading' = FALSE
        /\ hpc' = [hpc EXCEPT ![k] = "done"]
     \/ CatchFinally(k)
  /\ UNCHANGED <<currentQuery, rendered>>
  /\ UNCHANGED <<uploadVars, runVars, fsVars, embedVars, vectors, dq, chatVars>>

\* React renders the updates made after an await
Render ==
  /\ rendered # [isLoading |-> isLoading, currentQuery |-> currentQuery]
  /\ rendered' = [isLoading |-> isLoading, currentQuery |-> currentQuery]
  /\ UNCHANGED <<isLoading, currentQuery, messages, hpc>>
  /\ UNCHANGED <<uploadVars, runVars, fsVars, embedVars, vectors, dq, chatVars>>

\* ------------------------------------------------------------------- Next
UploadNext == \E u \in Uploads : UploadFile(u) \/ SaveDocument(u)

IngestNext ==
  \E d \in DocIds :
    \/ Mkdir(d)
    \/ Download(d)
    \/ WriteFile(d)
    \/ LoadAndSplit(d)
    \/ (\E i \in ChunkIdx : RemoteReturn(d, i))
    \/ Store(d)
    \/ Cleanup(d)

ClientNext == \E k \in Queries : EmbedQuery(k) \/ EmbedQueryReturn(k)

ChatNext ==
  \E c \in Chats : ChatStart(c) \/ Retrieve(c) \/ Generate(c) \/ RetrieveSources(c)

Next == UploadNext \/ IngestNext \/ ChatNext

Spec == Init /\ [][Next]_vars

\* the services with ingestDocument called again for saved Documents
RerunNext == \E d \in 1..MaxReingested : IngestAgain(d)

SpecRerun == Init /\ [][Next \/ RerunNext]_vars

\* embedDocuments under callers that pass any texts
EmbedNext ==
  \E d \in DocIds : CallEmbedDocuments(d) \/ (\E i \in ChunkIdx : RemoteReturn(d, i))

SpecEmbed == Init /\ [][EmbedNext]_vars

\* the chat form of the page, its requests answered or failing
UINext ==
  \/ \E text \in QueryTexts : onChange(text)
  \/ handleChatSubmit
  \/ \E k \in Submits : FetchReturn(k) \/ JsonReturn(k)
  \/ Render

SpecUI == Init /\ [][UINext]_vars

\* uploads and runs, every call a run awaits returning in the end: the file
\* system, the storage, the remote embedding model and the vector store answer
\* (weak fairness of every step of a run); a client need not upload
RunsFair ==
  \A d \in DocIds :
    /\ WF_vars(Mkdir(d)) /\ WF_vars(Download(d)) /\ WF_vars(WriteFile(d))
    /\ WF_vars(LoadAndSplit(d)) /\ WF_vars(Store(d)) /\ WF_vars(Cleanup(d))
    /\ \A i \in ChunkIdx : WF_vars(RemoteReturn(d, i))

SpecFair == Init /\ [][UploadNext \/ IngestNext]_vars /\ RunsFair

\* the embedding client under every caller its public methods allow
SpecClient == Init /\ [][UploadNext \/ IngestNext \/ ClientNext]_vars

\* ================================================================ claims
\* vector records of document d in the store
Stored(d) ==
  Cardinality({j \in 1..Len(vectors) : vectors[j].metadata.documentId = d})

Settled(d) == ipc[d] = "done"

\* the run of d is between its mkdir and the end of its fs.rm
InTry(d) == ipc[d] \in {"download", "write", "load", "embedding", "store", "cleanup"}

C2_AtMostK == InFlight <= Concurrency

\* C3 (as claimed): a run that stored the vectors of a document with at least
\* one chunk leaves the Document DONE and returns chunkCount > 0.
C3_EndsDone ==
  \A d \in DocIds :
    (Settled(d) /\ outcome[d] = "result")
      => (documents[d].status = "DONE" /\ ReturnValue(d).chunkCount > 0)

\* C4 (as claimed): a run that failed leaves the Document FAILED, and its
\* rejection was handled by the catch handler of uploadAndCreate.
C4_EndsFailed ==
  \A d \in DocIds :
    (Settled(d) /\ outcome[d] = "error")
      => (documents[d].status = "FAILED" /\ caught[d])

\* C5 (as claimed): once a text of an embedDocuments call has failed the call
\* has failed and no remote call of another text of that call is in flight
\* (with one slot a call in flight beside a failed one was started after it).
C5_BatchAborted ==
  \A d \in DocIds : \A i, j \in ChunkIdx :
    tstat[d][i] = "err" => (outcome[d] = "error" /\ tstat[d][j] # "running")

\* C6 (as claimed): a text's embedding has failed only after its remote call
\* was made 1 + maxRetries times.
C6_Retried ==
  \A d \in DocIds : \A i \in ChunkIdx :
    tstat[d][i] = "err" => attempts[d][i] = 1 + maxRetries

\* C7 (as claimed): when a run's result or error is delivered, the temporary
\* directory and file were removed by the run.
C7_Removed == \A d \in DocIds : Settled(d) => cleanup[d] = "removed"

\* C7 (amended): on every exit path fs.rm of the temporary directory has run
\* before the result or error is delivered, and it removed the directory and
\* its files unless fs.rm itself failed: the directory or a file exists only
\* while a run is between its mkdir and its fs.rm or after an fs.rm that failed.
C7_RemovedUnlessRmFails ==
  /\ \A d \in DocIds : Settled(d) => cleanup[d] \in {"removed", "failed"}
  /\ (tempDir \/ \E n \in Names : tempFiles[n] # 0)
       => \E d \in DocIds : InTry(d) \/ cleanup[d] = "failed"

\* C7 witness: every run is over, by early return and by failure, fs.rm worked
\* and nothing is left
C7_Witness ==
  /\ \A d \in DocIds : Settled(d) /\ cleanup[d] = "removed"
  /\ \E d \in DocIds : outcome[d] = "undefined"
  /\ \E d \in DocIds : outcome[d] = "error"
  /\ ~tempDir /\ \A n \in Names : tempFiles[n] = 0

\* the upload request that created document d
UploadOf(d) == CHOOSE u \in Uploads : uploadResult[u].id = d

\* C8: once the run of a document has been started, and whatever became of
\* it, the upload has answered with the saved Document: the row as saved, with
\* status UPLOADED.
C8_UploadDecoupled ==
  \A d \in DocIds :
    ipc[d] # "none" =>
      \E u \in Uploads :
        /\ upc[u] = "responded"
        /\ response[u] = [message |-> "File uploaded successfully!",
                          document |-> [id |-> d, file_name |-> file[u].name,
                                        storage_path |-> PathOf(u),
                                        status |-> "UPLOADED"]]

\* C8 witness: the uploads have answered, one run is still waiting for its
\* embeddings and another has failed
C8_Witness ==
  \E d, e \in DocIds :
    /\ ipc[d] = "embedding" /\ upc[UploadOf(d)] = "responded"
    /\ Settled(e) /\ outcome[e] = "error" /\ upc[UploadOf(e)] = "responded"

\* C9 (as claimed): the sources of a chat response are those of the documents
\* whose texts made the context of the prompt.
C9_SameChunks ==
  \A c \in Chats : cpc[c] = "done" => sources[c] = SourceDocuments(context[c])

\* C10 (as claimed): a run whose document splits into no chunk returns without
\* error, made no embedding call, stored nothing, and the Document is DONE.
C10_EmptyDone ==
  \A d \in DocIds :
    (Settled(d) /\ loaded[d] # 0 /\ chunks[d] = 0) =>
      /\ outcome[d] = "undefined"
      /\ \A i \in ChunkIdx : attempts[d][i] = 0
      /\ Stored(d) = 0
      /\ documents[d].status = "DONE"

\* ------------------------------------------------------------ C11 .. C20
\* remote embedding calls were made for texts of document d
Embedded(d) == \E i \in ChunkIdx : attempts[d][i] > 0

\* C11 (as claimed): the steps of a run happen in the order fetch, extract and
\* chunk, embed, store, each after the previous one succeeded (nothing was
\* extracted before the bytes were fetched and written, no text was embedded
\* before the chunks were made, no record was stored before every text was
\* embedded); a run that failed before anything was extracted, as it does when
\* the fetch fails, embedded and stored nothing and leaves the Document FAILED.
C11_StepsInOrder ==
  \A d \in DocIds :
    /\ ipc[d] \in {"none", "mkdir", "download", "write", "load"} => loaded[d] = 0
    /\ Embedded(d) => (loaded[d] # 0 /\ chunks[d] > 0)
    /\ Stored(d) > 0 => \A i \in 1..chunks[d] : tstat[d][i] = "ok"
    /\ (outcome[d] = "error" /\ loaded[d] = 0)
         => (~Embedded(d) /\ Stored(d) = 0
             /\ (Settled(d) => documents[d].status = "FAILED"))

\* a remote embedding call of an ingestion run is outstanding
CallOutstanding == \E d \in DocIds : \E i \in ChunkIdx : tstat[d][i] = "running"

\* every remote call another task waits for can return, and the task go on:
\* the storage download and the insert of a run, the retrievals and the
\* language-model call of a chat request
OthersProceed ==
  /\ \A e \in DocIds :
       /\ ipc[e] = "download" => ENABLED Download(e)
       /\ ipc[e] = "store" => ENABLED Store(e)
  /\ \A c \in Chats :
       /\ cpc[c] = "idle" => ENABLED ChatStart(c)
       /\ cpc[c] = "retrieve" => ENABLED Retrieve(c)
       /\ cpc[c] = "generate" => ENABLED Generate(c)
       /\ cpc[c] = "sources" => ENABLED RetrieveSources(c)

\* C12 (as claimed): while a remote embedding call of one run is outstanding
\* every other task goes on with its own remote calls: no embedding call of
\* another document waits for it.
C12_OnlyCallerBlocked ==
  \A d \in DocIds : \A i \in ChunkIdx :
    tstat[d][i] = "running" =>
      /\ OthersProceed
      /\ \A e \in DocIds \ {d} : \A j \in ChunkIdx : tstat[e][j] # "queued"

\* C12 (amended): while a remote embedding call of one run is outstanding, a
\* chat request and the storage and vector-store calls of another run go on;
\* the embedding calls of another run wait in the limiter's queue, and only
\* while Concurrency calls are outstanding.
C12_OnlyLimiterQueueWaits ==
  /\ CallOutstanding => OthersProceed
  /\ queue # <<>> => (activeCount = Concurrency /\ CallOutstanding)
  /\ \A d \in DocIds : \A i \in ChunkIdx :
       tstat[d][i] = "queued" <=> \E j \in 1..Len(queue) : queue[j] = <<d, i>>

\* C12 witness: a call of one run is outstanding, the texts of another run wait
\* in the queue, and a chat request has retrieved and waits for its answer
C12_Witness ==
  \E d, e \in DocIds : \E i, j \in ChunkIdx : \E c \in Chats :
    /\ d # e /\ tstat[d][i] = "running" /\ tstat[e][j] = "queued"
    /\ cpc[c] = "generate"

\* C13: the promise of an embedDocuments call is fulfilled with one vector per
\* input text, the vector of text i at index i, and for no text it is
\* fulfilled with the empty sequence without any remote call.
C13_OneVectorPerText ==
  \A d \in DocIds :
    /\ result[d].state = "fulfilled" =>
         /\ Len(result[d].value) = Len(texts[d])
         /\ \A i \in 1..Len(texts[d]) : result[d].value[i] = Vector(texts[d][i])
    /\ (result[d].state # "none" /\ texts[d] = <<>>) =>
         /\ result[d] = [state |-> "fulfilled", value |-> <<>>]
         /\ \A i \in ChunkIdx : attempts[d][i] = 0

\* C13 witness: one call was given two different texts, the second of the
\* file first, and has returned their vectors; another was given no text and
\* has returned
C13_Witness ==
  \E d, e \in DocIds :
    /\ texts[d] = <<<<1, 2>>, <<1, 1>>>> /\ result[d].state = "fulfilled"
    /\ result[e].state = "fulfilled" /\ texts[e] = <<>>

\* the records a run of d makes of its chunks: one per chunk, in order
RunRecords(d) ==
  [i \in 1..chunks[d] |->
     [content |-> PageContent(loaded[d], i),
      metadata |-> [documentId |-> d, source |-> FileName(d)]]]

\* C14: every step of an upload, a run or a chat request leaves the records
\* of the store in place and unchanged, and what a step adds is the full set
\* of records of one run, appended behind the records already there, those of
\* an earlier run of the same document among them.
C14_AppendOnly ==
  [][\/ vectors' = vectors
     \/ \E d \in DocIds :
          chunks[d] > 0 /\ vectors' = vectors \o RunRecords(d)]_vars

\* C14 witness: a document was ingested twice and the store holds its set of
\* records twice
C14_Witness ==
  \E d \in DocIds :
    /\ Settled(d) /\ chunks[d] = MaxChunks
    /\ vectors = RunRecords(d) \o RunRecords(d)

\* C15: a step of a chat request, to its answer or to its error, leaves the
\* vector store and every Document row as they were.
C15_ChatReadsOnly ==
  [][(\E c \in Chats : cpc'[c] # cpc[c]) => UNCHANGED <<vectors, documents>>]_vars

\* C15 witness: a chat request has returned sources read from a store that
\* holds records, with Documents saved
C15_Witness ==
  \E c \in Chats :
    cpc[c] = "done" /\ sources[c] # <<>> /\ vectors # <<>> /\ documents # <<>>

\* C16: a chat request whose retrieval (query embedding and search) or
\* language-model call failed has ended with an error, without answer and
\* without sources, and generateResponse has started each of its steps at most
\* once: as many steps as its position says, the failed one being the last.
C16_FailsWithoutRetry ==
  \A c \in Chats :
    /\ cpc[c] = "error" =>
         (answer[c] = "none" /\ sources[c] = <<>> /\ steps[c] \in 1..3)
    /\ cpc[c] = "idle" => steps[c] = 0
    /\ cpc[c] = "retrieve" => steps[c] = 1
    /\ cpc[c] = "generate" => steps[c] = 2
    /\ cpc[c] \in {"sources", "done"} => steps[c] = 3

\* C16 witness: the language-model call of a request failed, after its
\* retrieval, while the store held records
C16_Witness ==
  \E c \in Chats : cpc[c] = "error" /\ steps[c] = 2 /\ vectors # <<>>

\* the values of Document.status
Statuses == {"PENDING", "UPLOADED", "PROCESSING", "DONE", "FAILED"}

\* a status stays, or moves one arrow of the lifecycle
Allowed(s, t) ==
  \/ s = t
  \/ <<s, t>> \in {<<"PENDING", "UPLOADED">>, <<"UPLOADED", "PROCESSING">>,
                  <<"PROCESSING", "DONE">>, <<"PROCESSING", "FAILED">>}

\* C17: after every step each Document row has a status of the lifecycle, no
\* row is gone, and the status of a row is the one it had or the next of the
\* lifecycle (so never an earlier one, and DONE and FAILED are never left).
C17_StatusLifecycle ==
  [][/\ Len(documents') >= Len(documents)
     /\ \A d \in 1..Len(documents') :
          /\ documents'[d].status \in Statuses
          /\ d <= Len(documents) => Allowed(documents[d].status, documents'[d].status)]_vars

\* C17 witness: the run of a Document has stored its records and is over, the
\* run of another has failed, and both rows have the status they were saved with
C17_Witness ==
  \E d, e \in DocIds :
    /\ Settled(d) /\ outcome[d] = "result" /\ documents[d].status = "UPLOADED"
    /\ Settled(e) /\ outcome[e] = "error" /\ documents[e].status = "UPLOADED"

\* the storage upload of request u failed: uploadAndCreate threw before it kept
\* the file
UploadFailed(u) == upc[u] = "failed" /\ file[u] = NoFile

\* C18: the bytes of every Document row with status UPLOADED are in the bucket
\* under its storage_path; an upload whose storage upload failed has ended
\* with an error and has no row and no run (there are as many rows as uploads
\* that saved one, none of them for a failed upload); a run was started only
\* for a saved row.
C18_StoredThenSavedThenIngested ==
  /\ \A d \in 1..Len(documents) :
       documents[d].status = "UPLOADED" => documents[d].storage_path \in PathsStored
  /\ \A u \in Uploads :
       UploadFailed(u) =>
         /\ response[u] = "error" /\ uploadResult[u] = NoDoc
         /\ \A o \in storage : o.bytes # u
  /\ Len(documents) = Cardinality({u \in Uploads : upc[u] = "responded"})
  /\ \A d \in DocIds :
       ipc[d] # "none" =>
         /\ d <= Len(documents)
         /\ \E u \in Uploads : ~UploadFailed(u) /\ uploadResult[u] = documents[d]

\* C18 witness: the storage upload of one request failed, another request
\* stored its bytes, saved its row and its run is under way
C18_Witness ==
  \E u, v \in Uploads :
    /\ UploadFailed(u)
    /\ upc[v] = "responded" /\ Len(documents) = 1 /\ ipc[1] = "embedding"

\* C19: a step that adds records to the store is the insert of the run of one
\* Document, and every record it adds has in its metadata the id of that
\* Document as documentId and its file name as source, both set.
C19_RecordsCarryDocument ==
  [][vectors' # vectors =>
       \E d \in DocIds :
         /\ ipc[d] = "store" /\ ipc'[d] # "store"
         /\ documents[d].id # 0 /\ documents[d].file_name # ""
         /\ Len(vectors') > Len(vectors)
         /\ \A j \in 1..Len(vectors') :
              IF j <= Len(vectors) THEN vectors'[j] = vectors[j]
              ELSE vectors'[j].metadata = [documentId |-> documents[d].id,
                                           source |-> documents[d].file_name]]_vars

\* C19 witness: the store holds records of two Documents with different file
\* names
C19_Witness ==
  \E i, j \in 1..Len(vectors) :
    /\ Len(documents) = 2
    /\ vectors[i].metadata = [documentId |-> 1, source |-> documents[1].file_name]
    /\ vectors[j].metadata = [documentId |-> 2, source |-> documents[2].file_name]
    /\ documents[1].file_name # documents[2].file_name

\* a sequence without the repetitions of its elements, first occurrences kept
RECURSIVE Distinct(_)
Distinct(s) ==
  IF s = <<>> THEN <<>>
  ELSE LET r == Distinct(SubSeq(s, 1, Len(s) - 1))
           x == s[Len(s)]
       IN IF \E j \in 1..Len(r) : r[j] = x THEN r ELSE Append(r, x)

\* the (source, preview) pairs of retrieved chunks, in their order: the preview
\* is the first PreviewLen characters of the chunk, or the chunk when it is
\* shorter, with the ellipsis marker behind
Pairs(docs) ==
  [j \in 1..Len(docs) |->
     [source |-> docs[j].metadata.source,
      content |-> <<[docs[j].content EXCEPT !.len = Min(@, PreviewLen)], "...">>]]

\* C20 (as claimed): the sources a chat request returns are the distinct
\* (source, preview) pairs of the chunks its retrieval returned, in retrieval
\* order: at most TopK entries, no pair twice.
C20_DistinctSources ==
  [][\A c \in Chats :
       (cpc[c] = "sources" /\ cpc'[c] = "done") =>
         /\ sources'[c] = Distinct(Pairs(SimilaritySearch(vectors, query[c], TopK)))
         /\ Len(sources'[c]) <= TopK
         /\ \A i, j \in 1..Len(sources'[c]) : i # j => sources'[c][i] # sources'[c][j]]_vars

\* ------------------------------------------------------------ C21 .. C26
\* C21: a run that was started is over in the end, with a result, with
\* undefined or with an error, when every call it awaits returns; nothing
\* takes a run back or away before that.
C21_RunTerminates ==
  /\ [][\A d \in DocIds : ipc[d] # "none" => ipc'[d] # "none"]_vars
  /\ \A d \in DocIds :
       (ipc[d] # "none") ~> (Settled(d) /\ outcome[d] \in {"result", "undefined", "error"})

\* C21 witness: the texts of one run wait in the limiter's queue behind the
\* call of another run
C21_Witness ==
  \E d, e \in DocIds : \E i, j \in ChunkIdx :
    d # e /\ tstat[d][i] = "running" /\ tstat[e][j] = "queued" /\ ipc[e] = "embedding"

\* a chunk of the context the chain retrieved is about what the query asks
Addressed(c) ==
  \E j \in 1..Len(context[c]) : Score(context[c][j], query[c]) = 1

\* C22 (as claimed): a chat request whose retrieved context holds nothing
\* about the query, the empty context of an empty store among them, has the
\* fixed cannot-answer sentence for its answer once the chain has returned.
C22_CannotAnswer ==
  \A c \in Chats :
    (cpc[c] \in {"sources", "done"} /\ ~Addressed(c)) => answer[c] = CannotAnswer

\* the bytes stored for Document d
OwnBytes(d) == BytesAt(documents[d].storage_path)

\* C23 (as claimed): from the end of its writeFile to its load the temporary
\* file of a run exists and holds the bytes of the run's own Document, and
\* what a run has loaded are the bytes of its own Document.
C23_OwnTempFile ==
  \A d \in DocIds :
    /\ ipc[d] = "load" => tempFiles[FileName(d)] = OwnBytes(d)
    /\ loaded[d] # 0 => loaded[d] = OwnBytes(d)

\* the storage upload of request u has succeeded
Uploaded(u) == upc[u] \in {"stored", "responded"}

\* C24: the bytes of every upload that succeeded are in the bucket, no path of
\* the bucket holds the bytes of two uploads, and the Document rows have
\* different storage_path values, each the path of the bytes of its own upload.
C24_DistinctPaths ==
  /\ \A u \in Uploads : Uploaded(u) => \E o \in storage : o.bytes = u
  /\ \A o, q \in storage : o.path = q.path => o.bytes = q.bytes
  /\ \A d, e \in 1..Len(documents) :
       d # e => documents[d].storage_path # documents[e].storage_path
  /\ \A u \in Uploads :
       upc[u] = "responded" =>
         \E o \in storage : o.bytes = u /\ o.path = uploadResult[u].storage_path

\* C24 witness: two uploads of files with the same original name have saved
\* their rows
C24_Witness ==
  /\ Len(documents) = 2
  /\ documents[1].file_name = documents[2].file_name
  /\ \A u \in Uploads : upc[u] = "responded"

\* C25: the step in which a run's fs.rm ends, removed or failed, leaves the
\* outcome the try block ended with: the result (or undefined) of a run that
\* succeeded is what the run returns, the error of a run that failed is what
\* it raises, to the catch handler of uploadAndCreate and only then.
C25_CleanupKeepsOutcome ==
  [][\A d \in DocIds :
       (ipc[d] = "cleanup" /\ ipc'[d] = "done") =>
         /\ outcome[d] \in {"result", "undefined", "error"}
         /\ outcome'[d] = outcome[d]
         /\ caught'[d] = (outcome[d] = "error")
         /\ cleanup'[d] \in {"removed", "failed"}]_vars

\* C25 witness: fs.rm failed for a run that stored its records and for a run
\* that failed; the first returned its result, the second raised its error
C25_Witness ==
  \E d, e \in DocIds :
    /\ Settled(d) /\ cleanup[d] = "failed" /\ outcome[d] = "result" /\ ~caught[d]
    /\ Settled(e) /\ cleanup[e] = "failed" /\ outcome[e] = "error" /\ caught[e]

\* the requests of the chat form that are outstanding
Outstanding == {k \in Submits : hpc[k] \in {"fetch", "json"}}

\* C26: at most one request of the chat form is outstanding; isLoading is
\* true exactly while one is; and messages holds, for every accepted submit in
\* order, its user message followed by its one ai message, the last ai message
\* missing exactly while the request is outstanding.
C26_OneRequestOneAnswer ==
  /\ Cardinality(Outstanding) <= 1
  /\ isLoading <=> Outstanding # {}
  /\ Len(messages) = 2 * Cardinality({k \in Submits : hpc[k] = "done"})
                     + Cardinality(Outstanding)
  /\ \A j \in 1..Len(messages) :
       messages[j].sender = IF j % 2 = 1 THEN "user" ELSE "ai"

\* C26 witness: every submit was answered, one with the answer and one with an
\* error text, and isLoading is false again
C26_Witness ==
  /\ \A k \in Submits : hpc[k] = "done"
  /\ ~isLoading /\ Len(messages) = 2 * MaxSubmits
  /\ \E i, j \in 1..Len(messages) :
       messages[i].text = "answer" /\ messages[j].text = "error"

====
